---- MODULE Spec2Model ----
(***************************************************************************)
(* Model of the agri-feeders scripts.                                      *)
(*                                                                         *)
(* Part 1 (Spec): one run of a STEP1 extractor, either                     *)
(*   scripts/STEP1_AYP_SFHTML_ibge_extract_history.py  (ex = "ibge") or    *)
(*   scripts/STEP1_AYP_SFHTML_nass_extract_history.py  (ex = "nass"):      *)
(*   argument check, geo reference (disk cache or download), the           *)
(*   year x state request loop, post-processing and the three writes.      *)
(* Part 2 (SpecFlows): one run of update_flows.py: download, the           *)
(*   process_cot_data table computation, save.                             *)
(***************************************************************************)
EXTENDS Integers, Sequences, FiniteSets, TLC

\* ------------------------------------------------------------------------
\* Bounds and program constants
\* ------------------------------------------------------------------------

\* Number of entries of the state list that the loop walks (TARGET_STATES has
\* 4 entries, CORN_BELT_STATES has 12; the loop treats every entry alike).
NumStates == 2

\* Longest range of years of a run.  Years are counted from --start = 1, and
\* --end is drawn from 0..MaxYears (0: the range start..end is empty).
MaxYears == 2

StartYears == {1}
EndYears == 0..MaxYears

\* CACHE_MAX_AGE_DAYS of the IBGE extractor
IBGE_CACHE_MAX_AGE_DAYS == 90

\* CACHE_MAX_AGE_DAYS of the NASS extractor
NASS_CACHE_MAX_AGE_DAYS == 30

\* range(3) of the retry loop of fetch_state_crop_data
RETRY_ATTEMPTS == 3

MaxAgeDays(e) == IF e = "ibge" THEN IBGE_CACHE_MAX_AGE_DAYS ELSE NASS_CACHE_MAX_AGE_DAYS

\* Ages (in days) of the cache file at the start of a run: exactly the
\* maximum age, and one day more.
CacheAges(e) == {MaxAgeDays(e), MaxAgeDays(e) + 1}

Extractors == {"ibge", "nass"}

States == 1..NumStates

\* What the server can do with one HTTP request of the loop.
\*   ok_rows      200 and a body that parses to a non-empty table
\*   ok_empty     200 and a body without usable records
\*   too_many     413
\*   server_error a 5xx status
\*   client_error any other status
\*   exception    the request raises (timeout, connection error)
Responses == {"ok_rows", "ok_empty", "too_many", "server_error", "client_error", "exception"}

VARIABLES
    ex,          \* which extractor runs
    pc,          \* position in main
    startYear,   \* --start
    endYear,     \* --end
    cache,       \* the geo cache file on disk
    cacheSeen,   \* the cache file as load_cached_geo_data found it
    geoFetched,  \* fetch_geo_data / fetch_geo_data_from_census has returned
    geo,         \* geo_df / geo_ref_df: the keys (states) the table has rows for
    geoTried,    \* number of HTTP downloads of the geo reference
    geoFailed,   \* the download was attempted and the except branch returned pd.DataFrame()
    year,        \* loop variable year
    sidx,        \* index of the loop variable in the state list
    call,        \* the fetch call in progress or just finished: requests made,
                 \* failed ones (5xx or exception), last response, result
    requested,   \* the (year, state) pairs whose fetch call has finished
    all_data,    \* the (year, state) pairs whose table was appended to all_data
    final_df,    \* rows of final_df after post-processing
    files,       \* the three output files
    filesAtStart,\* the three output files before the run
    writeLog,    \* the output files in the order they were written
    exitStatus   \* process exit status, -1 while running

\* The run's arguments and what it found on disk.
argVars == <<ex, startYear, endYear, filesAtStart>>

geoVars == <<cache, cacheSeen, geoFetched, geo, geoTried, geoFailed>>

loopVars == <<year, sidx, call, requested, all_data>>

outVars == <<final_df, files, writeLog>>

exVars == <<argVars, geoVars, loopVars, outVars, pc, exitStatus>>

VARIABLES
    fpc,         \* position in main of update_flows.py
    now,         \* datetime.now(), in weeks
    cot,         \* cot_raw: the rows of the downloaded table
    cotCols,     \* which of the columns process_cot_data looks for the table has
    flows_k,     \* the table process_cot_data returned
    flowFiles,   \* data/flows_raw.csv and data/flows_raw.json
    flowFilesAtStart, \* the two files before the run
    fexit        \* process exit status, -1 while running

flVars == <<fpc, now, cot, cotCols, flows_k, flowFiles, flowFilesAtStart, fexit>>

\* STEP2 converters (STEP2_convert_to_required_{ibge,nass}_json_format.py),
\* run on the JSON that STEP1 exported: one process running main.
VARIABLES
    conv,        \* which converter runs: "ibge" or "nass"
    cpc,         \* position: "step1", "loop", "saved"
    step1_df,    \* STEP1's final_df before its unit conversions
    raw_data,    \* the rows of STEP1's JSON, as json.load returns them
    ridx,        \* index of the next row of raw_data
    municipios,  \* final_json["municipios"]: key -> metadata
    area,        \* final_json["area"][crop]: <<year, key>> -> value
    producao,    \* final_json["producao"][crop]: <<year, key>> -> value
    count,       \* records processed
    outJson      \* the saved output file

cvVars == <<conv, cpc, step1_df, raw_data, ridx, municipios, area, producao, count, outJson>>

NoJson == [saved |-> FALSE]

ConvIdle ==
    /\ conv = "ibge"
    /\ cpc = "idle"
    /\ step1_df = <<>>
    /\ raw_data = <<>>
    /\ ridx = 1
    /\ municipios = <<>>
    /\ area = <<>>
    /\ producao = <<>>
    /\ count = 0
    /\ outJson = NoJson

\* csv_to_json.py: one process running main on the two crop CSVs.
VARIABLES
    spc,           \* position in main
    input_soja,    \* rows of the soja CSV
    input_milho,   \* rows of the milho CSV
    coords_lookup, \* key -> coordinates, empty when skipped or failed
    resultado,     \* the dictionary main builds
    warnings,      \* what validar_dados returned
    saida,         \* the JSON written or printed
    sexit          \* exit status, -1 while running

csVars == <<spc, input_soja, input_milho, coords_lookup, resultado, warnings, saida, sexit>>

NoOutput == [written |-> FALSE]

\* resultado as main builds it before any processing.
EmptyResultado ==
    [metadata |-> <<>>, municipios |-> <<>>, areaTotal |-> <<>>, area |-> <<>>, producao |-> <<>>]

CsvIdle ==
    /\ spc = "idle"
    /\ input_soja = <<>>
    /\ input_milho = <<>>
    /\ coords_lookup = <<>>
    /\ resultado = EmptyResultado
    /\ warnings = {}
    /\ saida = NoOutput
    /\ sexit = -1

vars == <<exVars, flVars, cvVars, csVars>>

\* ------------------------------------------------------------------------
\* Geo reference: the freshness cache
\* ------------------------------------------------------------------------

NoCache == [exists |-> FALSE, age |-> 0, readable |-> FALSE, cols |-> FALSE, keys |-> {}]

Miss == [hit |-> FALSE, df |-> {}]

Hit(c) == [hit |-> TRUE, df |-> c.keys]

\* LoadCachedIbge with the age test `>=` in place of `>`: a cache file of
\* exactly the maximum age is thrown away.
MutLoadCachedIbge(c) ==
    IF ~c.exists THEN Miss
    ELSE IF c.age >= IBGE_CACHE_MAX_AGE_DAYS THEN Miss
    ELSE IF ~c.readable THEN Miss
    ELSE Hit(c)

\* load_cached_geo_data of the IBGE extractor: None (Miss) or the table read.
LoadCachedIbge(c) ==
    IF ~c.exists THEN Miss
    ELSE IF c.age > IBGE_CACHE_MAX_AGE_DAYS THEN Miss
    ELSE IF ~c.readable THEN Miss
    ELSE Hit(c)

\* LoadCachedNass without the validation of the columns.
MutLoadCachedNass(c) ==
    IF ~c.exists THEN Miss
    ELSE IF c.age > NASS_CACHE_MAX_AGE_DAYS THEN Miss
    ELSE IF ~c.readable THEN Miss
    ELSE Hit(c)

\* load_cached_geo_data of the NASS extractor: as above, and the table read
\* must have the columns fips, area_acres, latitude, longitude.
LoadCachedNass(c) ==
    IF ~c.exists THEN Miss
    ELSE IF c.age > NASS_CACHE_MAX_AGE_DAYS THEN Miss
    ELSE IF ~c.readable THEN Miss
    ELSE IF ~c.cols THEN Miss
    ELSE Hit(c)

load_cached_geo_data(e, c) ==
    IF e = "ibge" THEN LoadCachedIbge(c) ELSE LoadCachedNass(c)

\* The tables a successful download can produce: every state's keys, or a
\* reference that lacks the keys of the last state (left join leaves NaN).
GeoTables == {States, States \ {NumStates}}

FreshCache(keys) ==
    [exists |-> TRUE, age |-> 0, readable |-> TRUE, cols |-> TRUE, keys |-> keys]


\* ------------------------------------------------------------------------
\* The request loop
\* ------------------------------------------------------------------------

\* fetch_state_data (IBGE): one GET; raise_for_status turns every error status
\* into httpx.HTTPError, which the except branch answers with None.  A 200
\* body that is empty or parses to no records gives an empty table.
IbgeResult(r) ==
    CASE r = "ok_rows"  -> "rows"
      [] r = "ok_empty" -> "empty"
      [] OTHER          -> "None"

\* NassBranch that treats a 5xx like any other error status: return None.
MutNassBranch(r) ==
    CASE r = "ok_rows"      -> "rows"
      [] r = "ok_empty"     -> "empty"
      [] r = "too_many"     -> "empty"
      [] r = "server_error" -> "None"
      [] r = "client_error" -> "None"
      [] r = "exception"    -> "continue"

\* One pass of the retry loop of fetch_state_crop_data (NASS): what the
\* status branch does with the response.
NassBranch(r) ==
    CASE r = "ok_rows"      -> "rows"
      [] r = "ok_empty"     -> "empty"
      [] r = "too_many"     -> "empty"
      [] r = "server_error" -> "continue"
      [] r = "client_error" -> "None"
      [] r = "exception"    -> "continue"

\* RetryOrReturn with an off-by-one bound: one pass too many.
MutRetryOrReturn(b, n) ==
    IF b = "continue" /\ n <= RETRY_ATTEMPTS THEN "retry"
    ELSE IF b = "continue" THEN "None"
    ELSE b

\* The retry loop `for attempt in range(3)`: after the n-th request, a
\* `continue` starts the next pass while passes are left; when the loop runs
\* out the function returns None; every other branch returns at once.
RetryOrReturn(b, n) ==
    IF b = "continue" /\ n < RETRY_ATTEMPTS THEN "retry"
    ELSE IF b = "continue" THEN "None"
    ELSE b

IsFailure(r) == r \in {"server_error", "exception"}

NoCall == [n |-> 0, fails |-> 0, last |-> "-", done |-> FALSE, result |-> "-"]

\* The pairs of range(start, end + 1) x state list.
Pairs(s, e) == (s..e) \X States

\* LoopAdvance that leaves the year loop after the first year.
MutLoopAdvance(y, i) ==
    IF i < NumStates THEN [year |-> y, sidx |-> i + 1, over |-> FALSE]
    ELSE [year |-> y + 1, sidx |-> 1, over |-> TRUE]

\* Position after the inner loop body for (y, i) has run.
LoopAdvance(y, i) ==
    IF i < NumStates THEN [year |-> y, sidx |-> i + 1, over |-> FALSE]
    ELSE IF y + 1 <= endYear THEN [year |-> y + 1, sidx |-> 1, over |-> FALSE]
    ELSE [year |-> y + 1, sidx |-> 1, over |-> TRUE]

\* ------------------------------------------------------------------------
\* Post-processing
\* ------------------------------------------------------------------------

\* MergeGeo whose else branch forgets to null the coordinates.
MutMergeGeo(e, pairs, g) ==
    { [year |-> p[1], state |-> p[2],
       latitude  |-> IF g = {} \/ p[2] \in g THEN "value" ELSE "null",
       longitude |-> IF g = {} \/ p[2] \in g THEN "value" ELSE "null",
       area      |-> IF e = "nass" THEN (IF p[2] \in g THEN "acres" ELSE "0")
                     ELSE "absent"] : p \in pairs }

\* The merge with the geo reference: a left join when the reference has rows
\* (unmatched keys keep NaN coordinates; NASS fills the area with 0), and the
\* else branch that sets the columns to None / 0.0.
MergeGeo(e, pairs, g) ==
    IF g # {}
    THEN { [year |-> p[1], state |-> p[2],
            latitude  |-> IF p[2] \in g THEN "value" ELSE "null",
            longitude |-> IF p[2] \in g THEN "value" ELSE "null",
            area      |-> IF e = "nass" THEN (IF p[2] \in g THEN "acres" ELSE "0")
                          ELSE "absent"] : p \in pairs }
    ELSE { [year |-> p[1], state |-> p[2],
            latitude  |-> "null",
            longitude |-> "null",
            area      |-> IF e = "nass" THEN "0" ELSE "absent"] : p \in pairs }

\* NoDataCollected without the test: the run goes on with an empty all_data.
MutNoDataCollected(d) == FALSE

\* sys.exit(1) when all_data is empty.
NoDataCollected(d) == d = {}

Absent == [state |-> "absent", rows |-> {}]
Old == [state |-> "old", rows |-> {}]
Written(df) == [state |-> "written", rows |-> df]

\* The table each write call serialises.
CsvRows(df) == df
ParquetRows(df) == df
JsonRows(df) == df

\* WriteOrder with the Parquet and JSON writes swapped.
MutWriteOrder == <<"csv", "json", "parquet">>

\* The order of the three writes.
WriteOrder == <<"csv", "parquet", "json">>


\* ------------------------------------------------------------------------
\* The extractor run
\* ------------------------------------------------------------------------

\* The cache file a run can find on disk: none, or a file of either age that
\* may be unreadable and (NASS: written by an older version) may lack columns.
CacheFiles(e) ==
    {NoCache} \cup
    [exists : {TRUE}, age : CacheAges(e), readable : BOOLEAN,
     cols : IF e = "nass" THEN BOOLEAN ELSE {TRUE}, keys : {States}]

\* update_flows.py is not running.
FlowsIdle ==
    /\ fpc = "idle"
    /\ now = 0
    /\ cot = {}
    /\ cotCols = [money |-> TRUE, date |-> TRUE]
    /\ flows_k = <<>>
    /\ flowFiles = [csv |-> Absent, json |-> Absent]
    /\ flowFilesAtStart = flowFiles
    /\ fexit = -1

Init ==
    /\ FlowsIdle
    /\ ConvIdle
    /\ CsvIdle
    /\ ex \in Extractors
    /\ pc = "start"
    /\ startYear \in StartYears
    /\ endYear \in EndYears
    /\ cache \in CacheFiles(ex)
    /\ cacheSeen = NoCache
    /\ geoFetched = FALSE
    /\ geo = {}
    /\ geoTried = 0
    /\ geoFailed = FALSE
    /\ year = startYear
    /\ sidx = 1
    /\ call = NoCall
    /\ requested = {}
    /\ all_data = {}
    /\ final_df = {}
    /\ files \in {[csv |-> Absent, parquet |-> Absent, json |-> Absent],
                  [csv |-> Old, parquet |-> Old, json |-> Old]}
    /\ filesAtStart = files
    /\ writeLog = <<>>
    /\ exitStatus = -1

\* main, up to the geo fetch: get_query_params raises for an unknown crop
\* (IBGE), NASS_API_KEY is not set (NASS): sys.exit(1).
CheckArgs ==
    /\ pc = "start"
    /\ \E ok \in BOOLEAN :
        IF ok
        THEN /\ pc' = "geo"
             /\ exitStatus' = exitStatus
        ELSE /\ pc' = "exited"
             /\ exitStatus' = 1
    /\ UNCHANGED <<argVars, geoVars, loopVars, outVars, flVars, cvVars, csVars>>

\* Where main goes after the geo fetch: into the loop, or past it when
\* range(start, end + 1) is empty.
AfterGeo == IF startYear <= endYear THEN "loop" ELSE "collected"

\* fetch_geo_data / fetch_geo_data_from_census, cache hit: no request.
FetchGeoCached ==
    /\ pc = "geo"
    /\ load_cached_geo_data(ex, cache).hit
    /\ geo' = load_cached_geo_data(ex, cache).df
    /\ cacheSeen' = cache
    /\ geoFetched' = TRUE
    /\ pc' = AfterGeo
    /\ UNCHANGED <<argVars, cache, geoTried, geoFailed, loopVars, outVars, exitStatus, flVars, cvVars, csVars>>

\* The IBGE cache write is inside the try block: when it raises, the except
\* branch returns the empty table.
IbgeAfterSave(t, saved) == IF saved THEN t ELSE {}

\* fetch_geo_data / fetch_geo_data_from_census, cache miss: one download.
\* It fails (request, status, archive or columns), or gives a table that is
\* then written to the cache; the write can fail too.
FetchGeoDownload ==
    /\ pc = "geo"
    /\ ~load_cached_geo_data(ex, cache).hit
    /\ geoTried' = geoTried + 1
    /\ \/ /\ geo' = {}
          /\ geoFailed' = TRUE
          /\ cache' = cache
       \/ \E t \in GeoTables, saved \in BOOLEAN :
             /\ cache' = IF saved THEN FreshCache(t) ELSE cache
             /\ IF ex = "ibge"
                THEN /\ geo' = IbgeAfterSave(t, saved)
                     /\ geoFailed' = ~saved
                ELSE /\ geo' = t
                     /\ geoFailed' = FALSE
    /\ cacheSeen' = cache
    /\ geoFetched' = TRUE
    /\ pc' = AfterGeo
    /\ UNCHANGED <<argVars, loopVars, outVars, exitStatus, flVars, cvVars, csVars>>

\* The body of the inner loop once the fetch call has returned `result`:
\* append the table when it has rows, go to the next (year, state).
FinishCall(n, fails, r, result) ==
    /\ call' = [n |-> n, fails |-> fails, last |-> r, done |-> TRUE, result |-> result]
    /\ requested' = requested \cup {<<year, sidx>>}
    /\ all_data' = IF result = "rows" THEN all_data \cup {<<year, sidx>>} ELSE all_data
    /\ year' = LoopAdvance(year, sidx).year
    /\ sidx' = LoopAdvance(year, sidx).sidx
    /\ pc' = IF LoopAdvance(year, sidx).over THEN "collected" ELSE "loop"

\* IBGE: one pass of the inner loop: fetch_state_data, parse, append.
IbgeRequest ==
    /\ pc = "loop"
    /\ ex = "ibge"
    /\ \E r \in Responses :
         FinishCall(1, IF IsFailure(r) THEN 1 ELSE 0, r, IbgeResult(r))
    /\ UNCHANGED <<argVars, geoVars, outVars, exitStatus, flVars, cvVars, csVars>>

\* Requests already made by the call in progress.
Attempt == IF call.done THEN 0 ELSE call.n

Fails == IF call.done THEN 0 ELSE call.fails

\* NASS: one request of fetch_state_crop_data.  The retry loop goes on after a
\* 5xx or an exception while attempts are left; otherwise the call returns
\* and the inner loop body finishes.
NassRequest ==
    /\ pc = "loop"
    /\ ex = "nass"
    /\ \E r \in Responses :
         LET n == Attempt + 1
             f == Fails + (IF IsFailure(r) THEN 1 ELSE 0)
             b == RetryOrReturn(NassBranch(r), n)
         IN  IF b = "retry"
             THEN /\ call' = [n |-> n, fails |-> f, last |-> r, done |-> FALSE,
                              result |-> "-"]
                  /\ UNCHANGED <<requested, all_data, year, sidx, pc>>
             ELSE FinishCall(n, f, r, b)
    /\ UNCHANGED <<argVars, geoVars, outVars, exitStatus, flVars, cvVars, csVars>>

\* After the loop: exit 1 with nothing collected, else concat, convert, merge
\* the geo reference, select and sort.
PostProcess ==
    /\ pc = "collected"
    /\ IF NoDataCollected(all_data)
       THEN /\ pc' = "exited"
            /\ exitStatus' = 1
            /\ final_df' = final_df
       ELSE /\ pc' = "write"
            /\ exitStatus' = exitStatus
            /\ final_df' = MergeGeo(ex, all_data, geo)
    /\ UNCHANGED <<argVars, geoVars, loopVars, files, writeLog, flVars, cvVars, csVars>>

\* The file the next write call writes.
NextFile == WriteOrder[Len(writeLog) + 1]

\* One of the three writes, in the order of the code.
WriteFile ==
    /\ pc = "write"
    /\ files' = [files EXCEPT ![NextFile] =
                    CASE NextFile = "csv" -> Written(CsvRows(final_df))
                      [] NextFile = "parquet" -> Written(ParquetRows(final_df))
                      [] NextFile = "json" -> Written(JsonRows(final_df))]
    /\ writeLog' = Append(writeLog, NextFile)
    /\ IF Len(writeLog) + 1 = Len(WriteOrder)
       THEN /\ pc' = "done"
            /\ exitStatus' = 0
       ELSE /\ pc' = "write"
            /\ exitStatus' = exitStatus
    /\ UNCHANGED <<argVars, geoVars, loopVars, final_df, flVars, cvVars, csVars>>

Next ==
    \/ CheckArgs
    \/ FetchGeoCached
    \/ FetchGeoDownload
    \/ IbgeRequest
    \/ NassRequest
    \/ PostProcess
    \/ WriteFile

Spec == Init /\ [][Next]_vars


\* ------------------------------------------------------------------------
\* update_flows.py
\* ------------------------------------------------------------------------

\* Most rows a downloaded table has.
MaxRows == 4

\* timedelta(weeks=20) of the cutoff
KEEP_WEEKS == 20

\* Report dates of the downloaded table, in weeks.
ReportDates == {1, 2, 3}

\* Values of datetime.now(): the cutoff falls on the first report date, on
\* the second, and after the last.
NowChoices == {KEEP_WEEKS + 1, KEEP_WEEKS + 2, KEEP_WEEKS + 4}

\* Market_and_Exchange_Names of the rows, and the money-manager long and short
\* positions a row of each market can carry.
Markets == {"CORN", "WHEAT-SRW", "LEAN HOGS", "GOLD"}

Positions(m) ==
    CASE m = "CORN"      -> {<<2000, 500>>}
      [] m = "WHEAT-SRW" -> {<<1200, 200>>}
      [] m = "LEAN HOGS" -> {<<2500, 0>>, <<0, 0>>}
      [] m = "GOLD"      -> {<<700, 200>>}

CotRows ==
    UNION { UNION { { [date |-> d, market |-> m, long |-> p[1], short |-> p[2]]
                      : p \in Positions(m) } : m \in Markets } : d \in ReportDates }

\* The subsets of U with at most k elements.
RECURSIVE UpTo(_, _)
UpTo(U, k) ==
    IF k = 0 THEN {{}}
    ELSE LET P == UpTo(U, k - 1) IN P \cup {p \cup {x} : p \in P, x \in U}

CotTables == UpTo(CotRows, MaxRows)

\* The columns of a downloaded table: all there, the money-manager columns
\* missing, no date column.
CotColumns ==
    {[money |-> TRUE, date |-> TRUE], [money |-> FALSE, date |-> TRUE],
     [money |-> TRUE, date |-> FALSE]}

\* SECTOR_MAPPING: the keys in the order of the dict, and their sectors.
SectorKeys ==
    <<"CORN", "WHEAT", "WHEAT-SRW", "SOYBEANS", "SOYBEAN OIL", "SOYBEAN MEAL",
      "LIVE CATTLE", "LEAN HOGS", "FEEDER CATTLE", "COFFEE", "SUGAR", "COTTON", "COCOA">>

SECTOR_MAPPING(k) ==
    CASE k \in {"CORN", "WHEAT", "WHEAT-SRW", "SOYBEANS"} -> "Grains"
      [] k \in {"SOYBEAN OIL", "SOYBEAN MEAL"} -> "Oilseeds"
      [] k \in {"LIVE CATTLE", "LEAN HOGS", "FEEDER CATTLE"} -> "Meats"
      [] k \in {"COFFEE", "SUGAR", "COTTON", "COCOA"} -> "Softs"

\* `key in name_upper` for the market names of the model.
KeyInName(k, m) ==
    \/ k = m
    \/ k = "WHEAT" /\ m = "WHEAT-SRW"

\* get_sector: the sector of the first key found in the name, else None.
get_sector(m) ==
    IF \E i \in 1..Len(SectorKeys) : KeyInName(SectorKeys[i], m)
    THEN SECTOR_MAPPING(SectorKeys[
            CHOOSE i \in 1..Len(SectorKeys) :
               /\ KeyInName(SectorKeys[i], m)
               /\ \A j \in 1..(i - 1) : ~KeyInName(SectorKeys[j], m)])
    ELSE "None"

\* df.dropna(subset=['Sector'])
Mapped(df) == {r \in df : get_sector(r.market) # "None"}

\* Net_Position of a row
NetPosition(r) == r.long - r.short

RECURSIVE SumNet(_)
SumNet(rows) ==
    IF rows = {} THEN 0
    ELSE LET r == CHOOSE x \in rows : TRUE IN NetPosition(r) + SumNet(rows \ {r})

\* One cell of `pivoted`: the sum of the group (date, sector), NaN when the
\* group has no row.
Pivoted(df, d, sec) ==
    LET grp == {r \in Mapped(df) : r.date = d /\ get_sector(r.market) = sec}
    IN  IF grp = {} THEN [nan |-> TRUE, v |-> 0] ELSE [nan |-> FALSE, v |-> SumNet(grp)]

\* The index of `pivoted` (sorted by groupby) and its columns.
PivotDates(df) == {r.date : r \in Mapped(df)}

PivotSectors(df) == {get_sector(r.market) : r \in Mapped(df)}

\* pivoted.diff(): NaN in the first row and wherever either operand is NaN.
Diff(df, d, sec) ==
    LET before == {x \in PivotDates(df) : x < d}
    IN  IF before = {} THEN [nan |-> TRUE, v |-> 0]
        ELSE LET prev == CHOOSE x \in before : \A z \in before : z <= x
                 a == Pivoted(df, d, sec)
                 b == Pivoted(df, prev, sec)
             IN  IF a.nan \/ b.nan THEN [nan |-> TRUE, v |-> 0]
                 ELSE [nan |-> FALSE, v |-> a.v - b.v]

\* .fillna(0)
FillNa(c) == IF c.nan THEN 0 ELSE c.v

\* A truncation toward zero in place of the rounding.
MutRoundThousands(x) ==
    IF x >= 0 THEN x \div 1000 ELSE -((-x) \div 1000)

\* (flows / 1000).round().astype(int): round half to even.
RoundThousands(x) ==
    LET q == x \div 1000
        r == x % 1000
    IN  IF r < 500 THEN q
        ELSE IF r > 500 THEN q + 1
        ELSE IF q % 2 = 0 THEN q ELSE q + 1

RECURSIVE SumFlows(_, _)
SumFlows(f, secs) ==
    IF secs = {} THEN 0
    ELSE LET x == CHOOSE y \in secs : TRUE IN f[x] + SumFlows(f, secs \ {x})

\* One row of flows_k: the date, the flow of every sector, the Total.
FlowRow(df, d) ==
    LET f == [sec \in PivotSectors(df) |-> RoundThousands(FillNa(Diff(df, d, sec)))]
    IN  [Date |-> d, flow |-> f, Total |-> SumFlows(f, PivotSectors(df))]

\* The rows of a set of dates in ascending order of the date.
RECURSIVE SortedRows(_, _)
SortedRows(df, dates) ==
    IF dates = {} THEN <<>>
    ELSE LET d == CHOOSE x \in dates : \A z \in dates : x <= z
         IN  <<FlowRow(df, d)>> \o SortedRows(df, dates \ {d})

\* The cutoff test with `>` in place of `>=`.
MutKeepDate(d, t) == d > t - KEEP_WEEKS

\* flows_k['Date'] >= cutoff
KeepDate(d, t) == d >= t - KEEP_WEEKS

\* process_cot_data past its checks: the flows of every date, then the cut.
ProcessedTable(df, t) ==
    SortedRows(df, {d \in PivotDates(df) : KeepDate(d, t)})

\* update_flows.py is started.
FlowsInit ==
    /\ fpc = "start"
    /\ now \in NowChoices
    /\ cot = {}
    /\ cotCols = [money |-> TRUE, date |-> TRUE]
    /\ flows_k = <<>>
    /\ flowFiles \in {[csv |-> Absent, json |-> Absent], [csv |-> Old, json |-> Old]}
    /\ flowFilesAtStart = flowFiles
    /\ fexit = -1

\* No extractor is running.
ExIdle ==
    /\ ex = "ibge"
    /\ pc = "idle"
    /\ startYear = 1
    /\ endYear = 0
    /\ cache = NoCache
    /\ cacheSeen = NoCache
    /\ geoFetched = FALSE
    /\ geo = {}
    /\ geoTried = 0
    /\ geoFailed = FALSE
    /\ year = 1
    /\ sidx = 1
    /\ call = NoCall
    /\ requested = {}
    /\ all_data = {}
    /\ final_df = {}
    /\ files = [csv |-> Absent, parquet |-> Absent, json |-> Absent]
    /\ filesAtStart = files
    /\ writeLog = <<>>
    /\ exitStatus = -1

InitFlows == ExIdle /\ ConvIdle /\ CsvIdle /\ FlowsInit

\* download_cftc_data: the table of the year, or sys.exit(1) when the
\* request, the archive or the sheet fails.
DownloadCftc ==
    /\ fpc = "start"
    /\ \/ /\ fpc' = "exited"
          /\ fexit' = 1
          /\ UNCHANGED <<cot, cotCols>>
       \/ \E df \in CotTables, c \in CotColumns :
             /\ cot' = df
             /\ cotCols' = c
             /\ fpc' = "downloaded"
             /\ fexit' = fexit
    /\ UNCHANGED <<now, flows_k, flowFiles, flowFilesAtStart, exVars, cvVars, csVars>>

\* ProcessCot without the exit when no date column is found.
MutProcessCot ==
    /\ fpc = "downloaded"
    /\ IF ~cotCols.money \/ Mapped(cot) = {}
       THEN /\ fpc' = "exited"
            /\ fexit' = 1
            /\ flows_k' = flows_k
       ELSE /\ fpc' = "processed"
            /\ fexit' = fexit
            /\ flows_k' = ProcessedTable(cot, now)
    /\ UNCHANGED <<now, cot, cotCols, flowFiles, flowFilesAtStart, exVars, cvVars, csVars>>

\* process_cot_data: sys.exit(1) without the money-manager columns, without
\* a date column, or when no row maps to a sector; else the table of flows.
ProcessCot ==
    /\ fpc = "downloaded"
    /\ IF ~cotCols.money \/ ~cotCols.date \/ Mapped(cot) = {}
       THEN /\ fpc' = "exited"
            /\ fexit' = 1
            /\ flows_k' = flows_k
       ELSE /\ fpc' = "processed"
            /\ fexit' = fexit
            /\ flows_k' = ProcessedTable(cot, now)
    /\ UNCHANGED <<now, cot, cotCols, flowFiles, flowFilesAtStart, exVars, cvVars, csVars>>

\* save_data_files and the end of main.
SaveDataFiles ==
    /\ fpc = "processed"
    /\ flowFiles' = [csv |-> Written(flows_k), json |-> Written(flows_k)]
    /\ fpc' = "done"
    /\ fexit' = 0
    /\ UNCHANGED <<now, cot, cotCols, flows_k, flowFilesAtStart, exVars, cvVars, csVars>>

NextFlows ==
    \/ DownloadCftc
    \/ ProcessCot
    \/ SaveDataFiles

SpecFlows == InitFlows /\ [][NextFlows]_vars

\* ------------------------------------------------------------------------
\* Properties of the extractor run
\* ------------------------------------------------------------------------

Terminated == pc \in {"done", "exited"}

FileKinds == {"csv", "parquet", "json"}

AllWritten == \A k \in FileKinds : files[k].state = "written"

NoneWritten == \A k \in FileKinds : files[k].state # "written"

\* The cache file found exists, is at most the maximum age old and can be read.
FreshReadable(c, maxAge) == c.exists /\ c.age <= maxAge /\ c.readable

\* C1 as stated: in both extractors the geo fetch makes no download exactly
\* when the cache file exists, is at most 90 (IBGE) / 30 (NASS) days old and
\* can be read.
C1_Original ==
    geoFetched =>
        /\ ex = "ibge" => (geoTried = 0 <=> FreshReadable(cacheSeen, 90))
        /\ ex = "nass" => (geoTried = 0 <=> FreshReadable(cacheSeen, 30))

\* C1 amended: the IBGE geo fetch makes no download exactly when the cache
\* file exists, is at most 90 days old and can be read; the NASS geo fetch
\* makes no download exactly when the cache file exists, is at most 30 days
\* old, can be read and has the four required columns.  In every other case
\* exactly one download is attempted.
C1_CacheFreshness ==
    geoFetched =>
        /\ geoTried \in {0, 1}
        /\ ex = "ibge" => (geoTried = 0 <=> FreshReadable(cacheSeen, 90))
        /\ ex = "nass" => (geoTried = 0 <=> (FreshReadable(cacheSeen, 30) /\ cacheSeen.cols))

\* C1 witness: an IBGE run that used a cache file of exactly 90 days.
C1_Witness ==
    /\ ex = "ibge" /\ geoFetched /\ geoTried = 0
    /\ cacheSeen.exists /\ cacheSeen.age = 90

\* C2 as stated: in both extractors a fetch call that got a 5xx on its first
\* request does not return after that one request.
C2_Original ==
    (call.done /\ call.last = "server_error") => call.n > 1

\* C2 amended: only fetch_state_crop_data (NASS) re-issues the request after
\* a 5xx: its call returns on a 5xx only when that was the third request.
\* fetch_state_data (IBGE) makes one request per call and returns None on a
\* 5xx.
C2_RetryOn5xx ==
    /\ (ex = "nass" /\ call.done /\ call.last = "server_error") => call.n = 3
    /\ (ex = "nass" /\ ~call.done /\ call.n > 0) => call.last \in {"server_error", "exception"}
    /\ (ex = "ibge" /\ call.n > 0) => (call.done /\ call.n = 1)
    /\ (ex = "ibge" /\ call.last = "server_error") => call.result = "None"

\* C2 witness: a NASS call that stays in its retry loop after its second
\* request was answered with a 5xx.
C2_Witness ==
    /\ ex = "nass" /\ ~call.done /\ call.n = 2 /\ call.last = "server_error"

\* C3: fetch_state_crop_data makes at most 3 requests for one (state, year),
\* has returned once the third is answered, and returns None when all three
\* ended in a 5xx or an exception.
C3_RetryBounded ==
    ex = "nass" =>
        /\ call.n <= 3
        /\ call.n = 3 => call.done
        /\ (call.done /\ call.fails = 3) => call.result = "None"

\* C3 witness: a call that returned None after three failed requests.
C3_Witness ==
    /\ ex = "nass" /\ call.done /\ call.n = 3 /\ call.fails = 3 /\ call.result = "None"

\* C4: the geo reference is fetched before the first crop request, and no
\* output file is written until every (year, state) of start..end is done.
C4_PipelineOrder ==
    /\ (call.n > 0 \/ requested # {}) => geoFetched
    /\ (writeLog # <<>> \/ ~NoneWritten) => requested = Pairs(startYear, endYear)

\* C4 witness: a finished run over two years.
C4_Witness ==
    /\ pc = "done" /\ endYear = startYear + 1
    /\ requested = Pairs(startYear, endYear)

\* C5: a run in which no (year, state) request yields rows ends with status 1
\* and leaves the three output files as they were.
C5_NoDataExit ==
    (Terminated /\ all_data = {}) =>
        /\ exitStatus = 1
        /\ pc = "exited"
        /\ files = filesAtStart
        /\ writeLog = <<>>

\* C5 witness: every request of a two-year run made and none gave rows, with
\* output files of an earlier run on disk.
C5_Witness ==
    /\ pc = "exited" /\ endYear = startYear + 1
    /\ requested = Pairs(startYear, endYear) /\ all_data = {}
    /\ filesAtStart.csv.state = "old"

\* C6: a run in which a request yields rows ends with the three files written
\* in the order CSV, Parquet, JSON, all three with the same rows: one row for
\* each (year, state) that yielded rows.
C6_ThreeOutputs ==
    /\ \E i \in 0..3 : writeLog = SubSeq(<<"csv", "parquet", "json">>, 1, i)
    /\ \A k \in FileKinds :
          files[k].state = "written" <=> (\E i \in 1..Len(writeLog) : writeLog[i] = k)
    /\ (Terminated /\ all_data # {}) =>
          /\ pc = "done" /\ exitStatus = 0
          /\ writeLog = <<"csv", "parquet", "json">>
          /\ AllWritten
          /\ files.csv.rows = files.parquet.rows
          /\ files.parquet.rows = files.json.rows
          /\ {<<r.year, r.state>> : r \in files.csv.rows} = all_data

\* C6 witness: a finished run in which two requests gave rows.
C6_Witness ==
    /\ pc = "done" /\ Cardinality(all_data) >= 2 /\ AllWritten

\* Every row of every written file has null coordinates (and, NASS, area 0).
RowsWithoutGeo ==
    \A k \in FileKinds : \A r \in files[k].rows :
        /\ r.latitude = "null" /\ r.longitude = "null"
        /\ ex = "nass" => r.area = "0"

\* C7 as stated: after a failed geo download the run requests every
\* (year, state) and writes its outputs, all rows with null coordinates.
C7_Original ==
    (geoFailed /\ Terminated) =>
        /\ requested = Pairs(startYear, endYear)
        /\ AllWritten
        /\ RowsWithoutGeo

\* C7 amended: after a failed geo download the run still requests every
\* (year, state); when at least one of them yields rows it writes the three
\* outputs, and every output row has null latitude and longitude (and area 0
\* in NASS); when none does it ends with status 1 and no output, as any run.
C7_GeoFailureTolerated ==
    geoFailed =>
        /\ geo = {}
        /\ Terminated => requested = Pairs(startYear, endYear)
        /\ (Terminated /\ all_data # {}) => (pc = "done" /\ AllWritten)
        /\ (Terminated /\ all_data = {}) => (pc = "exited" /\ NoneWritten)
        /\ RowsWithoutGeo

\* C7 witness: a finished NASS run whose geo download failed.
C7_Witness ==
    /\ ex = "nass" /\ geoFailed /\ pc = "done" /\ files.json.rows # {}

\* C8: the NASS extractor uses the cache only if the file is fresh and has the
\* four columns; a fresh, readable cache without them is a miss and the
\* Census file is downloaded again.
C8_NassCacheColumns ==
    (ex = "nass" /\ geoFetched) =>
        /\ geoTried = 0 => (cacheSeen.exists /\ cacheSeen.age <= 30 /\ cacheSeen.cols)
        /\ (FreshReadable(cacheSeen, 30) /\ ~cacheSeen.cols) => geoTried = 1

\* C8 witness: a fresh, readable cache without the columns, and a download.
C8_Witness ==
    /\ ex = "nass" /\ geoFetched /\ geoTried = 1
    /\ FreshReadable(cacheSeen, 30) /\ ~cacheSeen.cols


\* ------------------------------------------------------------------------
\* Properties of process_cot_data
\* ------------------------------------------------------------------------

Returned == fpc \in {"processed", "done"}

\* The markets of a sector among the markets of the model.
InSector(m, sec) ==
    \/ sec = "Grains" /\ m \in {"CORN", "WHEAT-SRW"}
    \/ sec = "Meats" /\ m = "LEAN HOGS"

SectorRows(d, sec) == {r \in cot : r.date = d /\ InSector(r.market, sec)}

RECURSIVE LongMinusShort(_)
LongMinusShort(rows) ==
    IF rows = {} THEN 0
    ELSE LET r == CHOOSE x \in rows : TRUE
         IN  (r.long - r.short) + LongMinusShort(rows \ {r})

\* Net position of a sector at a date: long minus short over its markets.
NetAt(d, sec) == LongMinusShort(SectorRows(d, sec))

\* The report dates that have a row of some sector.
SectorDates == {r.date : r \in {x \in cot : \E sec \in {"Grains", "Meats"} : InSector(x.market, sec)}}

EarlierDates(d) == {x \in SectorDates : x < d}

PreviousDate(d) == CHOOSE x \in EarlierDates(d) : \A z \in EarlierDates(d) : z <= x

\* x / 1000 rounded to the nearest integer, a tie to the even one.
Nearest(x) ==
    CHOOSE k \in -10..10 :
        LET e == IF 1000 * k >= x THEN 1000 * k - x ELSE x - 1000 * k
        IN  e <= 500 /\ (e = 500 => k % 2 = 0)

ExpectedFlow(d, sec) ==
    IF EarlierDates(d) = {} THEN 0
    ELSE IF SectorRows(d, sec) = {} \/ SectorRows(PreviousDate(d), sec) = {} THEN 0
    ELSE Nearest(NetAt(d, sec) - NetAt(PreviousDate(d), sec))

TableDates == {flows_k[i].Date : i \in 1..Len(flows_k)}

Ascending == \A i \in 1..(Len(flows_k) - 1) : flows_k[i].Date < flows_k[i + 1].Date

\* C10 as stated: the returned table has exactly the report dates of the
\* input at or after now - 20 weeks, in ascending order.
C10_Original ==
    Returned =>
        /\ TableDates = {d \in {r.date : r \in cot} : d >= now - 20}
        /\ Ascending

\* C10 amended: the returned table has exactly the report dates, at or after
\* now - 20 weeks, at which the input has a row of a mapped commodity, in
\* ascending order, each with the flow relative to the preceding such report
\* date of the input, also when that date is before the cutoff.
C10_LastTwentyWeeks ==
    Returned =>
        /\ TableDates = {d \in SectorDates : d >= now - 20}
        /\ Ascending
        /\ \A i \in 1..Len(flows_k) : \A sec \in DOMAIN flows_k[i].flow :
              flows_k[i].flow[sec] = ExpectedFlow(flows_k[i].Date, sec)

\* C10 witness: a table whose first row is on the cutoff and has a flow, not
\* 0, relative to a report date that was cut.
C10_Witness ==
    /\ Returned /\ Len(flows_k) >= 2
    /\ flows_k[1].Date = now - 20
    /\ EarlierDates(flows_k[1].Date) # {}
    /\ \E sec \in DOMAIN flows_k[1].flow : flows_k[1].flow[sec] # 0

\* ------------------------------------------------------------------------
\* Properties of the update_flows.py run
\* ------------------------------------------------------------------------

\* What makes the pipeline give up: a column is missing, or no row of the
\* table belongs to a sector.
Unusable == ~cotCols.money \/ ~cotCols.date \/ SectorDates = {}

\* C11: when the download fails, the money-manager columns are missing, no
\* date column is found or no commodity maps to a sector, the run exits with
\* status 1 without reaching save_data_files: the two files are as they were
\* before the run.  A run that saved had none of these.
C11_FailuresExitBeforeSave ==
    /\ (fpc \in {"processed", "done"}) => ~Unusable
    /\ (fpc = "exited") =>
          /\ Unusable
          /\ fexit = 1
          /\ flowFiles = flowFilesAtStart
    /\ (flowFiles # flowFilesAtStart) => (fpc = "done" /\ fexit = 0)

\* C11 witness: a table with rows of a sector and the money-manager columns
\* but without a date column: exit 1, the files of an earlier run untouched.
C11_Witness ==
    /\ fpc = "exited" /\ fexit = 1
    /\ cotCols.money /\ ~cotCols.date /\ SectorDates # {}
    /\ flowFilesAtStart.csv.state = "old" /\ flowFiles = flowFilesAtStart

\* ------------------------------------------------------------------------
\* STEP1's unit conversions and the STEP2 converters
\* ------------------------------------------------------------------------

\* Bound: rows of the STEP1 export given to a converter.
MaxRecords == 2

\* Numbers are held in millionths, so that a division by 1000 and a rounding
\* to two decimals are computed and not assumed.
\* float(value) of the whole number the statistics service reports.
Float(n) == n * 1000000

\* A cell of a frame or a JSON value: NaN is exported as null.
Null == [nan |-> TRUE, v |-> 0]
Num(x) == [nan |-> FALSE, v |-> x]

\* column / 1000.0, exported with double_precision=15; NaN stays NaN.
Thousandth(c) == IF c.nan THEN Null ELSE Num(c.v \div 1000)

\* Python round(x, 2): to the nearest hundredth, ties to even.
Round2(x) ==
    LET q == x \div 10000
        r == x % 10000
        up == r > 5000 \/ (r = 5000 /\ q % 2 = 1)
    IN  10000 * (IF up THEN q + 1 ELSE q)

\* The statistics of one row: hectares (acres) planted and tonnes (bushels)
\* produced; the pivot of NASS leaves NaN where a county lacks a statistic.
IbgeValues ==
    {[area_planted |-> Num(Float(a)), production |-> Num(Float(q))] :
        <<a, q>> \in {<<0, 0>>, <<250, 1800>>, <<1234, 0>>}}
NassValues ==
    IbgeValues \cup {[area_planted |-> Null, production |-> Num(Float(1800))]}

\* Coordinates after the left join with the geo reference: None where the
\* key had no match.
Coordinates ==
    {[latitude |-> "-12.5", longitude |-> "-55.7"],
     [latitude |-> "null", longitude |-> "-55.7"],
     [latitude |-> "-12.5", longitude |-> "null"]}

YearsOfExport == {"2023"}
RegionNames(c) == IF c = "ibge" THEN {"Sorriso - MT", "Sinop - MT"} ELSE {"Adair", "Polk"}

\* Rows of final_df before the conversions.
Step1Rows(c) ==
    {[year |-> y, name |-> n, state |-> IF c = "ibge" THEN "MT" ELSE "IA",
      latitude |-> g.latitude, longitude |-> g.longitude,
      area_planted |-> v.area_planted, production |-> v.production] :
        y \in YearsOfExport, n \in RegionNames(c), g \in Coordinates,
        v \in IF c = "ibge" THEN IbgeValues ELSE NassValues}

Step1Frames(c) == UNION {[1..n -> Step1Rows(c)] : n \in 0..MaxRecords}

\* STEP1: production_1000t / area_planted_1000ha (1000bu / 1000acres for
\* NASS) and the export of the row as a JSON record.
Step1Record(row) ==
    [year |-> row.year, name |-> row.name, state |-> row.state,
     latitude |-> row.latitude, longitude |-> row.longitude,
     area_1k |-> Thousandth(row.area_planted),
     prod_1k |-> Thousandth(row.production)]

\* normalize_slug on the region names of the model.
normalize_slug(text) ==
    CASE text = "Sorriso - MT" -> "sorriso-mt"
      [] text = "Sinop - MT" -> "sinop-mt"
      [] OTHER -> "unknown"

\* make_slug on the county names of the model.
make_slug(name, state) ==
    CASE name = "Adair" /\ state = "IA" -> "adair-ia"
      [] name = "Polk" /\ state = "IA" -> "polk-ia"
      [] OTHER -> "unknown"

KeyOf(c, row) == IF c = "ibge" THEN normalize_slug(row.name) ELSE make_slug(row.name, row.state)

\* The guard of the loop body: both coordinates present.
MutHasCoordinates(row) == row.latitude # "null"
HasCoordinates(row) == row.latitude # "null" /\ row.longitude # "null"

\* IBGE: 1000 ha -> ha and 1000 t -> t, rounded to two decimals.
MutIbgeStore(v) == Round2(v * 100)
IbgeStore(v) == Round2(v * 1000)

\* NASS: kept in 1000 acres / 1000 bushels, rounded to two decimals.
NassStore(v) == Round2(v)

StoreValue(c, v) == IF c = "ibge" THEN IbgeStore(v) ELSE NassStore(v)

\* final_json[...][crop][year][key] = value when the cell is a positive number.
PutPositive(table, y, key, c, cell) ==
    IF ~cell.nan /\ cell.v > 0
    THEN (<<y, key>> :> StoreValue(c, cell.v)) @@ table
    ELSE table

ConvInit ==
    /\ conv \in {"ibge", "nass"}
    /\ cpc = "step1"
    /\ step1_df \in Step1Frames(conv)
    /\ raw_data = <<>>
    /\ ridx = 1
    /\ municipios = <<>>
    /\ area = <<>>
    /\ producao = <<>>
    /\ count = 0
    /\ outJson = NoJson

InitConv == ExIdle /\ FlowsIdle /\ CsvIdle /\ ConvInit

\* STEP1 converts the units and exports; the converter loads the JSON.
Step1Export ==
    /\ cpc = "step1"
    /\ raw_data' = [i \in 1..Len(step1_df) |-> Step1Record(step1_df[i])]
    /\ cpc' = "loop"
    /\ UNCHANGED <<conv, step1_df, ridx, municipios, area, producao, count, outJson, exVars, flVars, csVars>>

\* A row without latitude or longitude: continue.
SkipRow ==
    /\ cpc = "loop"
    /\ ridx <= Len(raw_data)
    /\ ~HasCoordinates(raw_data[ridx])
    /\ ridx' = ridx + 1
    /\ UNCHANGED <<conv, cpc, step1_df, raw_data, municipios, area, producao, count, outJson, exVars, flVars, csVars>>

\* The loop body for a row with coordinates.
ConvertRow ==
    /\ cpc = "loop"
    /\ ridx <= Len(raw_data)
    /\ HasCoordinates(raw_data[ridx])
    /\ LET row == raw_data[ridx]
           key == KeyOf(conv, row)
       IN  /\ municipios' =
                 IF key \in DOMAIN municipios THEN municipios
                 ELSE (key :> [lat |-> row.latitude, lon |-> row.longitude,
                               label |-> row.name, uf |-> row.state]) @@ municipios
           /\ area' = PutPositive(area, row.year, key, conv, row.area_1k)
           /\ producao' = PutPositive(producao, row.year, key, conv, row.prod_1k)
    /\ count' = count + 1
    /\ ridx' = ridx + 1
    /\ UNCHANGED <<conv, cpc, step1_df, raw_data, outJson, exVars, flVars, csVars>>

\* json.dump(final_json) after the loop.
SaveJson ==
    /\ cpc = "loop"
    /\ ridx > Len(raw_data)
    /\ outJson' = [saved |-> TRUE, municipios |-> municipios, area |-> area, producao |-> producao]
    /\ cpc' = "saved"
    /\ UNCHANGED <<conv, step1_df, raw_data, ridx, municipios, area, producao, count, exVars, flVars, csVars>>

NextConv ==
    \/ Step1Export
    \/ SkipRow
    \/ ConvertRow
    \/ SaveJson

SpecConv == InitConv /\ [][NextConv]_vars

\* ------------------------------------------------------------------------
\* Properties of the converters
\* ------------------------------------------------------------------------

\* Rows the loop has passed, and those of them with both coordinates.
Passed == 1..(ridx - 1)
Located == {i \in Passed : raw_data[i].latitude # "null" /\ raw_data[i].longitude # "null"}
Unlocated == Passed \ Located

\* Rows that account for an entry <<y, k>> of a table.
Accounts(i, y, k) == raw_data[i].year = y /\ KeyOf(conv, raw_data[i]) = k

\* C12: in both converters a row whose latitude or longitude is null
\* contributes nothing: the processed count, the keys of municipios and every
\* entry of area and producao are accounted for by the rows with both
\* coordinates alone.
C12_NullCoordinatesContributeNothing ==
    (cpc \in {"loop", "saved"}) =>
        /\ count = Cardinality(Located)
        /\ DOMAIN municipios = {KeyOf(conv, raw_data[i]) : i \in Located}
        /\ \A k \in DOMAIN municipios :
              /\ municipios[k].lat # "null"
              /\ municipios[k].lon # "null"
        /\ \A e \in DOMAIN area :
              \E i \in Located : Accounts(i, e[1], e[2]) /\ ~raw_data[i].area_1k.nan /\ raw_data[i].area_1k.v > 0
        /\ \A e \in DOMAIN producao :
              \E i \in Located : Accounts(i, e[1], e[2]) /\ ~raw_data[i].prod_1k.nan /\ raw_data[i].prod_1k.v > 0
        /\ (cpc = "saved") =>
              /\ outJson.municipios = municipios
              /\ outJson.area = area
              /\ outJson.producao = producao

\* C12 witness: a saved output where a row with positive area and production
\* but without a coordinate left no trace, next to a row that was processed.
C12_Witness ==
    /\ cpc = "saved"
    /\ count = 1
    /\ \E i \in Unlocated :
          /\ raw_data[i].area_1k.v > 0
          /\ raw_data[i].prod_1k.v > 0
          /\ KeyOf(conv, raw_data[i]) \notin DOMAIN outJson.municipios
    /\ outJson.area # <<>>

\* The last located row of its year and key: the one whose values stay.
LastOfKey(i) ==
    ~ \E j \in Located : j > i /\ Accounts(j, raw_data[i].year, KeyOf(conv, raw_data[i]))

\* C13: the IBGE conversions are inverse: for a row with coordinates and
\* positive area and production, the hectares and tonnes stored by STEP2 are
\* the area_planted and production that STEP1 divided by 1000.
C13_ConversionsInverse ==
    (conv = "ibge" /\ cpc \in {"loop", "saved"}) =>
        \A i \in Located :
            LET src == step1_df[i]
                e == <<src.year, KeyOf(conv, raw_data[i])>>
            IN  (src.area_planted.v > 0 /\ src.production.v > 0 /\ LastOfKey(i)) =>
                    /\ e \in DOMAIN area
                    /\ e \in DOMAIN producao
                    /\ area[e] = src.area_planted.v
                    /\ producao[e] = src.production.v

\* C13 witness: the IBGE output saved with 250 ha and 1800 t for a row that
\* STEP1 exported as 0.25 thousand ha and 1.8 thousand t.
C13_Witness ==
    /\ conv = "ibge"
    /\ cpc = "saved"
    /\ \E i \in Located :
          /\ step1_df[i].area_planted.v = Float(250)
          /\ raw_data[i].area_1k.v = 250000
          /\ raw_data[i].prod_1k.v = 1800000
          /\ outJson.area[<<raw_data[i].year, KeyOf(conv, raw_data[i])>>] = Float(250)
          /\ outJson.producao[<<raw_data[i].year, KeyOf(conv, raw_data[i])>>] = Float(1800)

\* ------------------------------------------------------------------------
\* csv_to_json.py
\* ------------------------------------------------------------------------

\* Bound: rows of the two CSVs together.
MaxCsvRows == 2

\* area_planted_1000ha and production_1000t are held in thousandths (of a
\* thousand hectares or tonnes), total_muni_area_ha in whole hectares.
\* An empty CSV cell is NaN.
CsvValues ==
    {[area_planted_1000ha |-> Null, production_1000t |-> Null, total_muni_area_ha |-> Num(2000)],
     [area_planted_1000ha |-> Num(1234), production_1000t |-> Num(4567), total_muni_area_ha |-> Null],
     [area_planted_1000ha |-> Num(3000), production_1000t |-> Num(0), total_muni_area_ha |-> Num(1000)],
     [area_planted_1000ha |-> Num(0), production_1000t |-> Num(800), total_muni_area_ha |-> Num(2000)]}

CsvYears == {2023, 2024}
CsvStates == {"Mato Grosso", "mg", "Exterior"}

CsvRowsOf ==
    {[year |-> y, region_name |-> "Água Boa", state_name |-> st,
      area_planted_1000ha |-> v.area_planted_1000ha,
      production_1000t |-> v.production_1000t,
      total_muni_area_ha |-> v.total_muni_area_ha] :
        y \in CsvYears, st \in CsvStates, v \in CsvValues}

\* The CSVs are exports sorted by year.
CsvFiles(n) ==
    UNION {{f \in [1..k -> CsvRowsOf] : \A i \in 1..(k - 1) : f[i].year <= f[i + 1].year} : k \in 0..n}

\* STATE_NAME_TO_UF.get(nome_uf.upper().strip()) on the state names of the
\* model; "none" is None.
mapear_uf(nome_uf) ==
    CASE nome_uf = "Mato Grosso" -> "MT"
      [] nome_uf = "mg" -> "MG"
      [] OTHER -> "none"

\* criar_chave_municipio on the region names of the model.
criar_chave_municipio(nome, uf) ==
    CASE nome = "Água Boa" /\ uf = "MT" -> "agua-boa-mt"
      [] nome = "Água Boa" /\ uf = "MG" -> "agua-boa-mg"
      [] OTHER -> "unknown"

\* float(cell) if pd.notna(cell) else 0.0
FloatOrZero(c) == IF c.nan THEN 0 ELSE c.v

\* Python round to a multiple of `unit`, ties to even.
RoundTo(x, unit) ==
    LET q == x \div unit
        r == x % unit
        up == 2 * r > unit \/ (2 * r = unit /\ q % 2 = 1)
    IN  unit * (IF up THEN q + 1 ELSE q)

\* "Pular registros sem produção significativa".
MutInsignificant(area_plantada, producao_) == area_plantada <= 0 \/ producao_ <= 0
Insignificant(area_plantada, producao_) == area_plantada <= 0 /\ producao_ <= 0

\* The body of the loop of processar_csv for one row.
ProcessRow(acc, row) ==
    LET uf == mapear_uf(row.state_name)
        chave == criar_chave_municipio(row.region_name, uf)
        area_plantada == FloatOrZero(row.area_planted_1000ha)
        producao_ == FloatOrZero(row.production_1000t)
        area_total_ha == FloatOrZero(row.total_muni_area_ha)
    IN  IF uf = "none" THEN acc
        ELSE IF Insignificant(area_plantada, producao_) THEN acc
        ELSE [area_data |-> (<<row.year, chave>> :> RoundTo(area_plantada, 10)) @@ acc.area_data,
              producao_data |-> (<<row.year, chave>> :> RoundTo(producao_, 100)) @@ acc.producao_data,
              area_total_data |->
                  IF area_total_ha > 0
                  THEN (chave :> RoundTo(area_total_ha, 10)) @@ acc.area_total_data
                  ELSE acc.area_total_data]

RECURSIVE ProcessRows(_, _)
ProcessRows(df, n) ==
    IF n = 0
    THEN [area_data |-> <<>>, producao_data |-> <<>>, area_total_data |-> <<>>]
    ELSE ProcessRow(ProcessRows(df, n - 1), df[n])

\* processar_csv: the three dictionaries; the crop is a key of area_data and
\* producao_data only when a row was stored.  A CSV that cannot be read gives
\* the same three empty dictionaries as one without rows.
processar_csv(df, cultura) ==
    LET r == ProcessRows(df, Len(df))
    IN  [area_data |-> IF r.area_data = <<>> THEN <<>> ELSE (cultura :> r.area_data),
         producao_data |-> IF r.producao_data = <<>> THEN <<>> ELSE (cultura :> r.producao_data),
         area_total_data |-> r.area_total_data]

\* The test of validar_dados on one entry.
MutExceeds(area_plantada, area_total) == area_plantada > area_total
Exceeds(area_plantada, area_total) == area_total > 0 /\ area_plantada > area_total

\* area_total_data.get(mun, 0)
GetTotal(area_total_data, mun) ==
    IF mun \in DOMAIN area_total_data THEN area_total_data[mun] ELSE 0

\* validar_dados: one warning per offending entry, named by crop, year and
\* municipality.
validar_dados(area_data, area_total_data) ==
    {<<cultura, e[1], e[2]>> : <<cultura, e>> \in
        {<<c, d>> \in UNION {{c2} \X DOMAIN area_data[c2] : c2 \in DOMAIN area_data} :
            Exceeds(area_data[c][d], GetTotal(area_total_data, d[2]))}}

\* The coordinates dataset, keyed like the municipalities.
CoordsDataset == ("agua-boa-mt" :> [lat |-> "-14.05", lon |-> "-52.16"])

\* municipios_unicos with adicionar_coordenadas applied.
Municipios(area_data, lookup) ==
    LET unicos == UNION {{d[2] : d \in DOMAIN area_data[c]} : c \in DOMAIN area_data}
    IN  [mun \in unicos |-> IF mun \in DOMAIN lookup THEN lookup[mun] ELSE <<>>]

\* dict.update
Update(d, other) == other @@ d

CsvInit ==
    /\ spc = "start"
    /\ input_soja \in CsvFiles(MaxCsvRows)
    /\ input_milho \in CsvFiles(MaxCsvRows - Len(input_soja))
    /\ coords_lookup = <<>>
    /\ resultado = EmptyResultado
    /\ warnings = {}
    /\ saida = NoOutput
    /\ sexit = -1

InitCsv == ExIdle /\ FlowsIdle /\ ConvIdle /\ CsvInit

\* --skip-coords
SkipCoords ==
    /\ spc = "start"
    /\ spc' = "soja"
    /\ UNCHANGED <<input_soja, input_milho, coords_lookup, resultado, warnings, saida, sexit, exVars, flVars, cvVars>>

\* baixar_coordenadas_municipios: the lookup, or {} after any exception.
BaixarCoordenadas ==
    /\ spc = "start"
    /\ coords_lookup' \in {<<>>, CoordsDataset}
    /\ spc' = "soja"
    /\ UNCHANGED <<input_soja, input_milho, resultado, warnings, saida, sexit, exVars, flVars, cvVars>>

\* The three updates of resultado with what processar_csv returned.
Merge(res, r) ==
    [res EXCEPT !.area = Update(@, r.area_data),
                !.producao = Update(@, r.producao_data),
                !.areaTotal = Update(@, r.area_total_data)]

ProcessarSoja ==
    /\ spc = "soja"
    /\ resultado' = Merge(resultado, processar_csv(input_soja, "soja"))
    /\ spc' = "milho"
    /\ UNCHANGED <<input_soja, input_milho, coords_lookup, warnings, saida, sexit, exVars, flVars, cvVars>>

ProcessarMilho ==
    /\ spc = "milho"
    /\ resultado' = Merge(resultado, processar_csv(input_milho, "milho"))
    /\ spc' = "municipios"
    /\ UNCHANGED <<input_soja, input_milho, coords_lookup, warnings, saida, sexit, exVars, flVars, cvVars>>

\* The municipalities, their coordinates, and the validation: the warnings
\* go to metadata.warnings when there are any.
Validar ==
    /\ spc = "municipios"
    /\ LET w == validar_dados(resultado.area, resultado.areaTotal)
       IN  /\ warnings' = w
           /\ resultado' =
                 [resultado EXCEPT
                     !.municipios = Municipios(resultado.area, coords_lookup),
                     !.metadata = IF w # {} THEN ("warnings" :> w) ELSE @]
    /\ spc' = "validated"
    /\ UNCHANGED <<input_soja, input_milho, coords_lookup, saida, sexit, exVars, flVars, cvVars>>

\* "Estatísticas finais": min(anos_soja) and min(anos_milho) raise ValueError
\* when the crop has no year.
Estatisticas ==
    /\ spc = "validated"
    /\ IF "soja" \in DOMAIN resultado.area /\ "milho" \in DOMAIN resultado.area
       THEN spc' = "stats" /\ sexit' = sexit
       ELSE spc' = "crashed" /\ sexit' = 1
    /\ UNCHANGED <<input_soja, input_milho, coords_lookup, resultado, warnings, saida, exVars, flVars, cvVars>>

\* json.dumps(resultado), written to --output or printed.
Output ==
    /\ spc = "stats"
    /\ saida' = [written |-> TRUE, json |-> resultado]
    /\ spc' = "done"
    /\ sexit' = 0
    /\ UNCHANGED <<input_soja, input_milho, coords_lookup, resultado, warnings, exVars, flVars, cvVars>>

NextCsv ==
    \/ SkipCoords
    \/ BaixarCoordenadas
    \/ ProcessarSoja
    \/ ProcessarMilho
    \/ Validar
    \/ Estatisticas
    \/ Output

SpecCsv == InitCsv /\ [][NextCsv]_vars

\* ------------------------------------------------------------------------
\* Properties of csv_to_json.py
\* ------------------------------------------------------------------------

Culturas == {"soja", "milho"}
InputOf(c) == IF c = "soja" THEN input_soja ELSE input_milho

\* The crops whose CSV main has processed.
Processed ==
    CASE spc \in {"idle", "start", "soja"} -> {}
      [] spc = "milho" -> {"soja"}
      [] OTHER -> Culturas

Positive(cell) == ~cell.nan /\ cell.v > 0
Recognised(row) == row.state_name \in {"Mato Grosso", "mg"}
ChaveOf(row) == criar_chave_municipio(row.region_name, mapear_uf(row.state_name))

\* Rows of a recognised state with a positive planted area or production.
Significant(df) ==
    {i \in 1..Len(df) :
        /\ Recognised(df[i])
        /\ Positive(df[i].area_planted_1000ha) \/ Positive(df[i].production_1000t)}

EntriesOf(table, c) == IF c \in DOMAIN table THEN DOMAIN table[c] ELSE {}

\* C14: a row has an entry in area and in producao exactly when its state is
\* recognised and its planted area or its production is positive; the other
\* rows (both values <= 0 or missing) add nothing to area, producao or
\* areaTotal.
C14_StoredWhenSignificant ==
    /\ \A c \in Processed :
          LET df == InputOf(c)
              want == {<<df[i].year, ChaveOf(df[i])>> : i \in Significant(df)}
          IN  /\ EntriesOf(resultado.area, c) = want
              /\ EntriesOf(resultado.producao, c) = want
    /\ \A c \in Culturas \ Processed :
          c \notin DOMAIN resultado.area /\ c \notin DOMAIN resultado.producao
    /\ DOMAIN resultado.areaTotal =
          UNION {{ChaveOf(InputOf(c)[i]) :
                    i \in {j \in Significant(InputOf(c)) : Positive(InputOf(c)[j].total_muni_area_ha)}} :
                 c \in Processed}

\* C14 witness: both CSVs processed; the soja row without area and production
\* left nothing, not even its total area, while the milho row of another
\* municipality with production but no planted area has its entries.
C14_Witness ==
    /\ spc = "municipios"
    /\ Len(input_soja) = 1 /\ Len(input_milho) = 1
    /\ Recognised(input_soja[1])
    /\ input_soja[1].area_planted_1000ha.nan
    /\ Positive(input_soja[1].total_muni_area_ha)
    /\ "soja" \notin DOMAIN resultado.area
    /\ ChaveOf(input_soja[1]) \notin DOMAIN resultado.areaTotal
    /\ ChaveOf(input_milho[1]) \in DOMAIN resultado.areaTotal
    /\ Recognised(input_milho[1])
    /\ input_milho[1].area_planted_1000ha = Num(0)
    /\ <<input_milho[1].year, ChaveOf(input_milho[1])>> \in EntriesOf(resultado.area, "milho")

\* Rows of either crop that carry a positive total area for municipality k.
TotalRows(k) ==
    {<<c, i>> \in UNION {{c2} \X (1..Len(InputOf(c2))) : c2 \in Culturas} :
        /\ Recognised(InputOf(c)[i])
        /\ ChaveOf(InputOf(c)[i]) = k
        /\ Positive(InputOf(c)[i].total_muni_area_ha)}

\* C15: areaTotal holds, for every municipality, the total area of a row of
\* the greatest year among all rows of either crop that carry a positive
\* total_muni_area_ha for it (in thousand hectares, two decimals).
C15_MostRecentTotal ==
    (Processed = Culturas) =>
        \A k \in {"agua-boa-mt", "agua-boa-mg"} :
            (TotalRows(k) # {}) =>
                /\ k \in DOMAIN resultado.areaTotal
                /\ \E r \in TotalRows(k) :
                      /\ \A q \in TotalRows(k) : InputOf(q[1])[q[2]].year <= InputOf(r[1])[r[2]].year
                      /\ resultado.areaTotal[k] = RoundTo(InputOf(r[1])[r[2]].total_muni_area_ha.v, 10)

\* The recorded total area of a municipality, 0 when there is none.
RecordedTotal(k) == IF k \in DOMAIN resultado.areaTotal THEN resultado.areaTotal[k] ELSE 0

\* C16: validar_dados returns one warning for exactly the (crop, year,
\* municipality) entries whose planted area exceeds a positive recorded total
\* area; the warnings are in metadata.warnings (the key is absent when there
\* are none) and are part of the output; only a crop without any entry keeps
\* main from producing the output, never a warning.
C16_WarningsDoNotBlock ==
    (spc \in {"validated", "stats", "crashed", "done"}) =>
        /\ warnings =
              UNION {{<<c, e[1], e[2]>> :
                        e \in {d \in DOMAIN resultado.area[c] :
                                 /\ RecordedTotal(d[2]) > 0
                                 /\ resultado.area[c][d] > RecordedTotal(d[2])}} :
                     c \in DOMAIN resultado.area}
        /\ IF warnings = {}
           THEN "warnings" \notin DOMAIN resultado.metadata
           ELSE resultado.metadata["warnings"] = warnings
        /\ (spc = "crashed") => (Culturas \ DOMAIN resultado.area # {})
        /\ (spc \in {"stats", "done"}) => (Culturas \subseteq DOMAIN resultado.area)
        /\ (spc = "done") => (saida.written /\ saida.json = resultado /\ sexit = 0)

\* C16 witness: the output produced with a warning in metadata.warnings, for
\* one entry and not for another.
C16_Witness ==
    /\ spc = "done"
    /\ saida.written
    /\ Cardinality(warnings) = 1
    /\ saida.json.metadata["warnings"] = warnings
    /\ \E c \in Culturas : \E d \in DOMAIN saida.json.area[c] :
          /\ <<c, d[1], d[2]>> \notin warnings
          /\ saida.json.area[c][d] > 0

====
